---- MODULE Spec2Model ----
(***************************************************************************)
(* A model of src/ghch.js: the GitHub -> Clubhouse issue importer.         *)
(*                                                                         *)
(* One run of githubClubhouseImport(options) is modelled.  The suspension  *)
(* points of the run are its network calls (each page of the GitHub        *)
(* listing, the Clubhouse project lookup, each bulk-create request); what  *)
(* the event loop runs between two network completions (the callback and   *)
(* the promise continuations it makes runnable) is one action.             *)
(*                                                                         *)
(* JavaScript strings are sequences of one-character strings, so that      *)
(* toLowerCase, includes and split act on their characters.                *)
(***************************************************************************)
EXTENDS Integers, Sequences, FiniteSets, TLC

(***************************************************************************)
(* Bounds of the model.                                                    *)
(***************************************************************************)
\* most issues (items that are not pull requests) the repository holds
MaxIssues == 25
\* most pull requests the listing holds between two issues
MaxPRGap == 4
\* most labels of the label sequences getStoryType is applied to on its own
MaxLabels == 3

(***************************************************************************)
(* Program constants.                                                      *)
(***************************************************************************)
\* per_page of the listing request
PerPage == 100
\* chunk(stories, 10)
BatchSize == 10
\* process.exit(1)
ExitFailure == 1

(***************************************************************************)
(* JavaScript values.                                                      *)
(***************************************************************************)
\* a value that may be undefined: `let issues;`, a function that returns nothing
Undefined == [def |-> FALSE, val |-> 0]
Defined(v) == [def |-> TRUE, val |-> v]

Min(a, b) == IF a < b THEN a ELSE b

\* "abc" as the code sees it: a sequence of characters
UpperCase == <<"A","B","C","D","E","F","G","H","I","J","K","L","M",
               "N","O","P","Q","R","S","T","U","V","W","X","Y","Z">>
LowerCase == <<"a","b","c","d","e","f","g","h","i","j","k","l","m",
               "n","o","p","q","r","s","t","u","v","w","x","y","z">>

\* String.prototype.toLowerCase
toLowerCase(s) ==
  [i \in 1..Len(s) |->
     IF \E k \in 1..Len(UpperCase) : UpperCase[k] = s[i]
     THEN LowerCase[CHOOSE k \in 1..Len(UpperCase) : UpperCase[k] = s[i]]
     ELSE s[i]]

\* String.prototype.includes: sub occurs in s as a contiguous run, letter case kept
includes(s, sub) ==
  \E i \in 0..(Len(s) - Len(sub)) : SubSeq(s, i + 1, i + Len(sub)) = sub

\* Array.prototype.includes
arrayIncludes(arr, x) == \E i \in 1..Len(arr) : arr[i] = x

\* String.prototype.split on a one-character separator
RECURSIVE split(_, _)
split(s, sep) ==
  IF \E i \in 1..Len(s) : s[i] = sep
  THEN LET i == CHOOSE k \in 1..Len(s) : s[k] = sep /\ \A j \in 1..(k - 1) : s[j] # sep
       IN  <<SubSeq(s, 1, i - 1)>> \o split(SubSeq(s, i + 1, Len(s)), sep)
  ELSE <<s>>

VARIABLES
  options,        \* the argument of githubClubhouseImport
  pc,             \* where the run is
  exitCode,       \* the status the process ends with
  listing,        \* what the repository's issue listing holds (issues and pull requests)
  pagesReceived,  \* pages of the listing octokit.paginate has received
  data,           \* the items octokit.paginate has accumulated
  issues,         \* githubClubhouseImport's `issues`
  project,        \* importIssuesToClubhouse's `project`
  stories,        \* importIssuesToClubhouse's `stories`
  batches,        \* importIssuesToClubhouse's `batches`
  batchState,     \* per batch: the state of its createStories call
  issuesImported, \* importIssuesToClubhouse's `issuesImported`
  joined,         \* the state of the Promise.all over the batches
  returned,       \* what importIssuesToClubhouse returned, once it has
  calls,          \* the network calls issued, in order
  out,            \* what was written to the user, in order
  labelsArg,      \* getStoryType applied on its own: its argument
  storyTypeRes    \* getStoryType applied on its own: its result

vars == <<options, pc, exitCode, listing, pagesReceived, data, issues, project,
          stories, batches, batchState, issuesImported, joined, returned,
          calls, out, labelsArg, storyTypeRes>>

runVars == <<options, pc, exitCode, listing, pagesReceived, data, issues, project,
             stories, batches, batchState, issuesImported, joined, returned,
             calls, out>>

(***************************************************************************)
(* What the user sees.                                                     *)
(***************************************************************************)
\* one line written by log(...) or by a spinner; arg is the value it interpolates
Msg(level, kind, arg) == [level |-> level, kind |-> kind, arg |-> arg]

(***************************************************************************)
(* validateOptions                                                         *)
(***************************************************************************)
ValidStates == << <<"o","p","e","n">>, <<"c","l","o","s","e","d">>, <<"a","l","l">> >>

\* the option values the runs are started with.  A missing option and an empty
\* one are both falsy, and the model writes both as the empty string; state is
\* always a string (validateOptions calls its toLowerCase unguarded)
TokenChoices == {<<>>, <<"t","o","k">>}
ProjectChoices == {<<>>, <<"4","2">>}
UrlChoices == {<<>>, <<"o","/","r">>}
StateChoices == { <<"o","p","e","n">>, <<"C","l","o","s","e","d">>, <<"A","L","L">>,
                  <<"o","p","e">>, <<>> }

\* !v for a string option
Falsy(v) == Len(v) = 0

\* validateOptions without its test of state
ValidationErrorsNoStateRule(o) ==
     (IF Falsy(o.githubToken)
      THEN <<Msg("error", "UsageGithubToken", Undefined)>> ELSE <<>>)
  \o (IF Falsy(o.clubhouseToken)
      THEN <<Msg("error", "UsageClubhouseToken", Undefined)>> ELSE <<>>)
  \o (IF Falsy(o.clubhouseProject)
      THEN <<Msg("error", "UsageClubhouseProject", Undefined)>> ELSE <<>>)
  \o (IF Falsy(o.githubUrl)
      THEN <<Msg("error", "UsageGithubUrl", Undefined)>> ELSE <<>>)

\* validateOptions stopping at the first violation it finds
ValidationErrorsFirstOnly(o) ==
  IF Falsy(o.githubToken) THEN <<Msg("error", "UsageGithubToken", Undefined)>>
  ELSE IF Falsy(o.clubhouseToken) THEN <<Msg("error", "UsageClubhouseToken", Undefined)>>
  ELSE IF Falsy(o.clubhouseProject) THEN <<Msg("error", "UsageClubhouseProject", Undefined)>>
  ELSE IF Falsy(o.githubUrl) THEN <<Msg("error", "UsageGithubUrl", Undefined)>>
  ELSE IF ~arrayIncludes(ValidStates, toLowerCase(o.state))
       THEN <<Msg("error", "UsageState", Undefined)>>
  ELSE <<>>

\* the lines validateOptions logs before its final test of hasError, in order
ValidationErrors(o) ==
     (IF Falsy(o.githubToken)
      THEN <<Msg("error", "UsageGithubToken", Undefined)>> ELSE <<>>)
  \o (IF Falsy(o.clubhouseToken)
      THEN <<Msg("error", "UsageClubhouseToken", Undefined)>> ELSE <<>>)
  \o (IF Falsy(o.clubhouseProject)
      THEN <<Msg("error", "UsageClubhouseProject", Undefined)>> ELSE <<>>)
  \o (IF Falsy(o.githubUrl)
      THEN <<Msg("error", "UsageGithubUrl", Undefined)>> ELSE <<>>)
  \o (IF ~arrayIncludes(ValidStates, toLowerCase(o.state))
      THEN <<Msg("error", "UsageState", Undefined)>> ELSE <<>>)

\* hasError
hasError(o) == ValidationErrors(o) # <<>>

(***************************************************************************)
(* The repository's listing (what the GitHub API answers).                 *)
(***************************************************************************)
Label(name, color) == [name |-> name, color |-> color]

LabelBug == Label(<<"b","u","g">>, <<"d","7","3","a","4","a">>)
LabelBugCapital == Label(<<"B","u","g">>, <<"d","7","3","a","4","a">>)
LabelChore == Label(<<"c","h","o","r","e">>, <<"f","e","f","2","c","0">>)
LabelChoreCapital == Label(<<"C","h","o","r","e">>, <<"f","e","f","2","c","0">>)
LabelEnhancement == Label(<<"e","n","h","a","n","c","e","m","e","n","t">>, <<"a","2","e","e","e","f">>)
LabelDebugging == Label(<<"d","e","b","u","g","g","i","n","g">>, <<"0","0","0","0","0","0">>)

\* the labels an item of the listing may carry
LabelChoices == {LabelBug, LabelBugCapital, LabelChore, LabelChoreCapital,
                 LabelEnhancement, LabelDebugging}

\* the label sequences of the listing's items, by item number
LabelCatalog == << <<>>, <<LabelBug>>, <<LabelChore>>, <<LabelEnhancement>>,
                   <<LabelChore, LabelBug>>, <<LabelBugCapital>>,
                   <<LabelEnhancement, LabelChoreCapital>> >>

\* item p of a listing in which gap pull requests come first and follow every issue
Item(p, gap) ==
  [ number       |-> p,
    html_url     |-> <<"html_url", p>>,
    created_at   |-> <<"created_at", p>>,
    updated_at   |-> <<"updated_at", p>>,
    title        |-> <<"title", p>>,
    body         |-> IF p % 3 = 0 THEN Undefined ELSE Defined(<<"body", p>>),
    labels       |-> LabelCatalog[(p % Len(LabelCatalog)) + 1],
    pull_request |-> (p <= gap \/ (p - gap - 1) % (gap + 1) # 0) ]

\* a listing of n issues, with gap pull requests first and after every issue
Listing(n, gap) == [p \in 1..(gap * (n + 1) + n) |-> Item(p, gap)]

\* the number of pages the listing is served in
PageCount(l) == IF Len(l) = 0 THEN 1 ELSE (Len(l) + PerPage - 1) \div PerPage

\* page k of the listing
Page(l, k) == SubSeq(l, (k - 1) * PerPage + 1, Min(k * PerPage, Len(l)))

\* a call of the GitHub listing endpoint, as fetchGithubIssues builds it
ListCall(o, k) ==
  LET parts == split(o.githubUrl, "/")
  IN  [ kind     |-> "listForRepo",
        owner    |-> parts[1],
        repo     |-> IF Len(parts) >= 2 THEN Defined(parts[2]) ELSE Undefined,
        per_page |-> PerPage,
        state    |-> o.state,
        page     |-> k ]

\* a filter that lets every item through
KeepsEveryItem(issue) == TRUE

\* data.filter(issue => !issue.pull_request)
NotPullRequest(issue) == ~issue.pull_request
withoutPullRequests(items) == SelectSeq(items, NotPullRequest)

(***************************************************************************)
(* The mapper.                                                             *)
(***************************************************************************)
\* labels.find(...) is used as a condition: some label satisfies the test
NameIncludesBug(label) == includes(label.name, <<"b","u","g">>)
NameIncludesChore(label) == includes(label.name, <<"c","h","o","r","e">>)

\* getStoryType with its two tests in the other order
getStoryTypeChoreFirst(labels) ==
  IF (\E i \in 1..Len(labels) : NameIncludesChore(labels[i])) THEN "chore"
  ELSE IF (\E i \in 1..Len(labels) : NameIncludesBug(labels[i])) THEN "bug"
  ELSE "feature"

getStoryType(labels) ==
  IF (\E i \in 1..Len(labels) : NameIncludesBug(labels[i])) THEN "bug"
  ELSE IF (\E i \in 1..Len(labels) : NameIncludesChore(labels[i])) THEN "chore"
  ELSE "feature"

StoryLabel(label) == [color |-> <<"#">> \o label.color, name |-> label.name]

\* getStory that takes the project id from the issue
getStoryIssueNumberAsProject(project_id, issue) ==
  [ created_at  |-> issue.created_at,
    updated_at  |-> issue.updated_at,
    story_type  |-> getStoryType(issue.labels),
    name        |-> issue.title,
    description |-> IF issue.body.def THEN issue.body.val ELSE <<>>,
    external_id |-> issue.html_url,
    project_id  |-> issue.number,
    labels      |-> [i \in 1..Len(issue.labels) |-> StoryLabel(issue.labels[i])] ]

getStory(project_id, issue) ==
  [ created_at  |-> issue.created_at,
    updated_at  |-> issue.updated_at,
    story_type  |-> getStoryType(issue.labels),
    name        |-> issue.title,
    description |-> IF issue.body.def THEN issue.body.val ELSE <<>>,
    external_id |-> issue.html_url,
    project_id  |-> project_id,
    labels      |-> [i \in 1..Len(issue.labels) |-> StoryLabel(issue.labels[i])] ]

\* issues.map(issue => getStory(project.id, issue))
mapStories(project_id, iss) == [i \in 1..Len(iss) |-> getStory(project_id, iss[i])]

\* chunk that keeps only the full batches
chunkDropsRemainder(array, size) ==
  [i \in 1..(Len(array) \div size) |->
     SubSeq(array, (i - 1) * size + 1, i * size)]

\* lodash chunk(array, size)
chunk(array, size) ==
  [i \in 1..((Len(array) + size - 1) \div size) |->
     SubSeq(array, (i - 1) * size + 1, Min(i * size, Len(array)))]

(***************************************************************************)
(* The run.                                                                *)
(***************************************************************************)
NotReturned == [done |-> FALSE, value |-> Undefined]
Returned(v) == [done |-> TRUE, value |-> v]

InFlight == [st |-> "inflight", added |-> 0]

Append2(seq, a, b) == Append(Append(seq, a), b)

\* a bulk-create call, as createStories builds it
BulkCall(o, batch) == [kind |-> "bulk", token |-> o.clubhouseToken, stories |-> batch]

\* the ids the destination may answer the project lookup with (project.id)
ProjectIdChoices == {1, 2}

\* the call of clubhouse.getProject
ProjectCall(o) == [kind |-> "getProject", id |-> o.clubhouseProject]

\* what importIssuesToClubhouse's return makes githubClubhouseImport report
ImportReport(v) == Msg("succeed", "Imported", v)

\* the state before githubClubhouseImport is called
Init ==
  /\ options \in [ githubToken      : TokenChoices,
                    clubhouseToken   : TokenChoices,
                    clubhouseProject : ProjectChoices,
                    githubUrl        : UrlChoices,
                    state            : StateChoices ]
  /\ pc = "start"
  /\ exitCode = 0
  /\ listing = <<>>
  /\ pagesReceived = 0
  /\ data = <<>>
  /\ issues = Undefined
  /\ project = Undefined
  /\ stories = <<>>
  /\ batches = <<>>
  /\ batchState = <<>>
  /\ issuesImported = 0
  /\ joined = "none"
  /\ returned = NotReturned
  /\ calls = <<>>
  /\ out = <<>>
  /\ labelsArg = <<>>
  /\ storyTypeRes = "none"

\* validateOptions finds a violation: it logs every violation, an empty line,
\* and ends the process
ValidateExits ==
  /\ pc = "start"
  /\ hasError(options)
  /\ out' = Append(ValidationErrors(options), Msg("plain", "EmptyLine", Undefined))
  /\ exitCode' = ExitFailure
  /\ pc' = "exited"
  /\ UNCHANGED <<options, listing, pagesReceived, data, issues, project, stories,
                 batches, batchState, issuesImported, joined, returned, calls,
                 labelsArg, storyTypeRes>>

\* a start that asks for the project before it asks for the listing
StartFetchLookupFirst ==
  /\ pc = "start"
  /\ ~hasError(options)
  /\ \E n \in 0..MaxIssues, gap \in 0..MaxPRGap : listing' = Listing(n, gap)
  /\ out' = Append(out, Msg("start", "RetrievingIssues", Undefined))
  /\ calls' = Append2(calls, ProjectCall(options), ListCall(options, 1))
  /\ pc' = "fetching"
  /\ UNCHANGED <<options, exitCode, pagesReceived, data, issues, project, stories,
                 batches, batchState, issuesImported, joined, returned,
                 labelsArg, storyTypeRes>>

\* validateOptions passes; the spinner starts and fetchGithubIssues asks for the
\* first page of the listing
StartFetch ==
  /\ pc = "start"
  /\ ~hasError(options)
  /\ \E n \in 0..MaxIssues, gap \in 0..MaxPRGap : listing' = Listing(n, gap)
  /\ out' = Append(out, Msg("start", "RetrievingIssues", Undefined))
  /\ calls' = Append(calls, ListCall(options, 1))
  /\ pc' = "fetching"
  /\ UNCHANGED <<options, exitCode, pagesReceived, data, issues, project, stories,
                 batches, batchState, issuesImported, joined, returned,
                 labelsArg, storyTypeRes>>

\* a page arrives and another follows: octokit.paginate asks for the next one
PageArrives ==
  /\ pc = "fetching"
  /\ pagesReceived + 1 < PageCount(listing)
  /\ pagesReceived' = pagesReceived + 1
  /\ data' = data \o Page(listing, pagesReceived + 1)
  /\ calls' = Append(calls, ListCall(options, pagesReceived + 2))
  /\ UNCHANGED <<options, pc, exitCode, listing, issues, project, stories, batches,
                 batchState, issuesImported, joined, returned, out,
                 labelsArg, storyTypeRes>>

\* the last page arrives: fetchGithubIssues returns the items that are no pull
\* requests, the spinner succeeds, and importIssuesToClubhouse asks for the project
FetchSucceeds ==
  /\ pc = "fetching"
  /\ pagesReceived + 1 = PageCount(listing)
  /\ pagesReceived' = pagesReceived + 1
  /\ data' = data \o Page(listing, pagesReceived + 1)
  /\ issues' = Defined(withoutPullRequests(data'))
  /\ out' = Append2(out, Msg("succeed", "Retrieved", Defined(Len(issues'.val))),
                         Msg("start", "ImportingIssues", Undefined))
  /\ calls' = Append(calls, ProjectCall(options))
  /\ pc' = "lookup"
  /\ UNCHANGED <<options, exitCode, listing, project, stories, batches, batchState,
                 issuesImported, joined, returned, labelsArg, storyTypeRes>>

\* a failed fetch whose error is thrown on, out of githubClubhouseImport
FetchFailsRethrows ==
  /\ pc = "fetching"
  /\ out' = Append2(out, Msg("fail", "FetchFailed", Defined(options.githubUrl)),
                         Msg("error", "FetchError", Undefined))
  /\ pc' = "crashed"
  /\ UNCHANGED <<options, exitCode, listing, pagesReceived, data, issues, project,
                 stories, batches, batchState, issuesImported, joined, returned,
                 calls, labelsArg, storyTypeRes>>

\* a failed fetch that hands on the pages already received
FetchFailsKeepsPages ==
  /\ pc = "fetching"
  /\ issues' = Defined(withoutPullRequests(data))
  /\ out' = Append(Append2(out, Msg("fail", "FetchFailed", Defined(options.githubUrl)),
                                Msg("error", "FetchError", Undefined)),
                   Msg("start", "ImportingIssues", Undefined))
  /\ calls' = Append(calls, ProjectCall(options))
  /\ pc' = "lookup"
  /\ UNCHANGED <<options, exitCode, listing, pagesReceived, data, project,
                 stories, batches, batchState, issuesImported, joined, returned,
                 labelsArg, storyTypeRes>>

\* the request of a page fails: octokit.paginate throws, the catch of
\* githubClubhouseImport reports it, and `issues` stays undefined
FetchFails ==
  /\ pc = "fetching"
  /\ out' = Append2(out, Msg("fail", "FetchFailed", Defined(options.githubUrl)),
                         Msg("error", "FetchError", Undefined))
  /\ pc' = "done"
  /\ UNCHANGED <<options, exitCode, listing, pagesReceived, data, issues, project,
                 stories, batches, batchState, issuesImported, joined, returned,
                 calls, labelsArg, storyTypeRes>>

\* the project resolves: the issues are mapped and chunked and every batch's
\* bulk-create call is issued; with no batch the Promise.all is fulfilled at once
LookupResolves ==
  /\ pc = "lookup"
  /\ \E id \in ProjectIdChoices :
       /\ project' = Defined([id |-> id])
       /\ stories' = mapStories(id, issues.val)
  /\ batches' = chunk(stories', BatchSize)
  /\ issuesImported' = 0
  /\ batchState' = [i \in 1..Len(batches') |-> InFlight]
  /\ calls' = calls \o [i \in 1..Len(batches') |-> BulkCall(options, batches'[i])]
  /\ IF Len(batches') = 0
     THEN /\ joined' = "fulfilled"
          /\ returned' = Returned(Defined(issuesImported'))
          /\ out' = Append(out, ImportReport(Defined(issuesImported')))
          /\ pc' = "done"
     ELSE /\ joined' = "pending"
          /\ pc' = "submitting"
          /\ UNCHANGED <<returned, out>>
  /\ UNCHANGED <<options, exitCode, listing, pagesReceived, data, issues,
                 labelsArg, storyTypeRes>>

\* a failed lookup that is logged and then submits the batches all the same
LookupFailsSubmitsAnyway ==
  /\ pc = "lookup"
  /\ Len(issues.val) > 0
  /\ out' = Append(out, Msg("error", "ProjectNotFound", Defined(options.clubhouseProject)))
  /\ stories' = mapStories(0, issues.val)
  /\ batches' = chunk(stories', BatchSize)
  /\ batchState' = [i \in 1..Len(batches') |-> InFlight]
  /\ calls' = calls \o [i \in 1..Len(batches') |-> BulkCall(options, batches'[i])]
  /\ joined' = "pending"
  /\ pc' = "submitting"
  /\ UNCHANGED <<options, exitCode, listing, pagesReceived, data, issues, project,
                 issuesImported, returned, labelsArg, storyTypeRes>>

\* the project lookup fails: the outer catch logs, importIssuesToClubhouse
\* returns undefined, and githubClubhouseImport reports the import
LookupFails ==
  /\ pc = "lookup"
  /\ out' = Append2(out, Msg("error", "ProjectNotFound", Defined(options.clubhouseProject)),
                         ImportReport(Undefined))
  /\ returned' = Returned(Undefined)
  /\ pc' = "done"
  /\ UNCHANGED <<options, exitCode, listing, pagesReceived, data, issues, project,
                 stories, batches, batchState, issuesImported, joined, calls,
                 labelsArg, storyTypeRes>>

\* the lengths of the array the destination may answer a batch with
AddedChoices(batch) == {Len(batch), Len(batch) - 1}

\* a total that is overwritten by the last batch's count
AddImportedOverwrites(total, added) == added

\* issuesImported += added.length
AddImported(total, added) == total + added

AllCreated(bs) == \A i \in 1..Len(bs) : bs[i].st = "created"

\* a bulk-create call succeeds: its callback adds to issuesImported; when it was
\* the last one of a pending Promise.all, importIssuesToClubhouse returns the
\* total and githubClubhouseImport reports it
BatchCreated(b) ==
  /\ b \in 1..Len(batches)
  /\ batchState[b].st = "inflight"
  /\ \E added \in AddedChoices(batches[b]) :
       /\ issuesImported' = AddImported(issuesImported, added)
       /\ batchState' = [batchState EXCEPT ![b] = [st |-> "created", added |-> added]]
  /\ IF joined = "pending" /\ AllCreated(batchState')
     THEN /\ joined' = "fulfilled"
          /\ returned' = Returned(Defined(issuesImported'))
          /\ out' = Append(out, ImportReport(Defined(issuesImported')))
          /\ pc' = "done"
     ELSE UNCHANGED <<joined, returned, out, pc>>
  /\ UNCHANGED <<options, exitCode, listing, pagesReceived, data, issues, project,
                 stories, batches, calls, labelsArg, storyTypeRes>>

\* the ways a bulk-create call fails: a non-ok status, or fetch / res.json rejecting
FailureKinds == {"rejected", "transport"}

\* a failed bulk-create call that is submitted again, once per run
BatchFailsRetries(b) ==
  /\ b \in 1..Len(batches)
  /\ batchState[b].st = "inflight"
  /\ Cardinality({i \in 1..Len(calls) : calls[i].kind = "bulk"}) = Len(batches)
  /\ calls' = Append(calls, BulkCall(options, batches[b]))
  /\ UNCHANGED <<options, pc, exitCode, listing, pagesReceived, data, issues, project,
                 stories, batches, batchState, issuesImported, joined, returned, out,
                 labelsArg, storyTypeRes>>

\* a bulk-create call fails: the callback's catch evaluates `issue.number`,
\* where no `issue` is in scope, so it throws a ReferenceError before it logs
\* and the callback's promise rejects.  The first rejection rejects the
\* Promise.all: the outer catch logs, importIssuesToClubhouse returns undefined
\* and githubClubhouseImport reports the import, whatever is still in flight
BatchFails(b) ==
  /\ b \in 1..Len(batches)
  /\ batchState[b].st = "inflight"
  /\ \E how \in FailureKinds :
       batchState' = [batchState EXCEPT ![b] = [st |-> how, added |-> 0]]
  /\ IF joined = "pending"
     THEN /\ joined' = "rejected"
          /\ out' = Append2(out, Msg("error", "ProjectNotFound", Defined(options.clubhouseProject)),
                                 ImportReport(Undefined))
          /\ returned' = Returned(Undefined)
          /\ pc' = "done"
     ELSE UNCHANGED <<joined, returned, out, pc>>
  /\ UNCHANGED <<options, exitCode, listing, pagesReceived, data, issues, project,
                 stories, batches, issuesImported, calls, labelsArg, storyTypeRes>>

Next ==
  \/ ValidateExits
  \/ StartFetch
  \/ PageArrives
  \/ FetchSucceeds
  \/ FetchFails
  \/ LookupResolves
  \/ LookupFails
  \/ \E b \in 1..Len(batches) : BatchCreated(b)
  \/ \E b \in 1..Len(batches) : BatchFails(b)

Spec == Init /\ [][Next]_vars

\* The runs whose termination is checked.  The spelling of a valid state has no
\* part in how a run proceeds, so these runs take one valid and one invalid
\* state; everything else is as in Init
LiveStateChoices == { <<"o","p","e","n">>, <<"o","p","e">> }

InitLive == Init /\ options.state \in LiveStateChoices

\* every network call is answered in the end, and the event loop runs what is
\* runnable: a step that stays possible is taken
FairSpec == InitLive /\ [][Next]_vars /\ WF_vars(Next)

(***************************************************************************)
(* getStoryType on its own: applied to every label sequence of at most     *)
(* MaxLabels labels drawn from LabelChoices.                               *)
(***************************************************************************)
LabelSeqs(n) == UNION {[1..k -> LabelChoices] : k \in 0..n}

InitStoryType ==
  /\ options = [ githubToken |-> <<>>, clubhouseToken |-> <<>>,
                 clubhouseProject |-> <<>>, githubUrl |-> <<>>, state |-> <<>> ]
  /\ pc = "idle"
  /\ exitCode = 0
  /\ listing = <<>>
  /\ pagesReceived = 0
  /\ data = <<>>
  /\ issues = Undefined
  /\ project = Undefined
  /\ stories = <<>>
  /\ batches = <<>>
  /\ batchState = <<>>
  /\ issuesImported = 0
  /\ joined = "none"
  /\ returned = NotReturned
  /\ calls = <<>>
  /\ out = <<>>
  /\ labelsArg \in LabelSeqs(MaxLabels)
  /\ storyTypeRes = "none"

ApplyGetStoryType ==
  /\ pc = "idle"
  /\ storyTypeRes = "none"
  /\ storyTypeRes' = getStoryType(labelsArg)
  /\ UNCHANGED <<runVars, labelsArg>>

NextStoryType == ApplyGetStoryType

SpecStoryType == InitStoryType /\ [][NextStoryType]_vars

(***************************************************************************)
(* What the properties speak about.                                        *)
(***************************************************************************)
CallsOf(kind) == {i \in 1..Len(calls) : calls[i].kind = kind}
LinesOf(kind) == {i \in 1..Len(out) : out[i].kind = kind}
LinesAt(level) == {i \in 1..Len(out) : out[i].level = level}

\* the project lookup was made and failed
LookupFailed == returned.done /\ ~project.def

\* the listing failed
FetchFailed == LinesOf("FetchFailed") # {}

\* no bulk-create call is still awaited
NoneInFlight == \A b \in 1..Len(batchState) : batchState[b].st # "inflight"

SomeBatchFailed == \E b \in 1..Len(batchState) : batchState[b].st \in FailureKinds

\* the sum of the counts the destination confirmed to the batches that succeeded
RECURSIVE CreatedSum(_)
CreatedSum(bs) ==
  IF bs = <<>> THEN 0
  ELSE (IF Head(bs).st = "created" THEN Head(bs).added ELSE 0) + CreatedSum(Tail(bs))

\* two strings are equal up to the case of their letters
SameLetter(a, b) ==
  a = b \/ \E k \in 1..Len(UpperCase) : {a, b} = {UpperCase[k], LowerCase[k]}
EqualIgnoringCase(s, t) ==
  Len(s) = Len(t) /\ \A i \in 1..Len(s) : SameLetter(s[i], t[i])

\* word occurs in s with exactly these letters / up to the case of the letters
Occurs(s, word) ==
  \E i \in 1..Len(s) : \A k \in 1..Len(word) :
     i + k - 1 <= Len(s) /\ s[i + k - 1] = word[k]
OccursIgnoringCase(s, word) ==
  \E i \in 1..Len(s) : \A k \in 1..Len(word) :
     i + k - 1 <= Len(s) /\ SameLetter(s[i + k - 1], word[k])

\* the rules of the configuration that o violates
StateRecognised(o) ==
  \E w \in { <<"o","p","e","n">>, <<"c","l","o","s","e","d">>, <<"a","l","l">> } :
     EqualIgnoringCase(o.state, w)
ViolatedRules(o) ==
  {r \in {"githubToken", "clubhouseToken", "clubhouseProject", "githubUrl"} : o[r] = <<>>}
  \cup (IF StateRecognised(o) THEN {} ELSE {"state"})

UsageKinds == {"UsageGithubToken", "UsageClubhouseToken", "UsageClubhouseProject",
               "UsageGithubUrl", "UsageState"}
UsageLines == {i \in 1..Len(out) : out[i].kind \in UsageKinds}

\* the batches one after the other
RECURSIVE Flatten(_)
Flatten(bs) == IF bs = <<>> THEN <<>> ELSE Head(bs) \o Flatten(Tail(bs))

(***************************************************************************)
(* C1.  Once the project has resolved and every batch submission has       *)
(* completed, importIssuesToClubhouse has returned, and the run has        *)
(* reported, the sum of the counts confirmed by the batches that           *)
(* succeeded, a failed batch counting 0.                                   *)
(***************************************************************************)
C1_PartialFailureCount ==
  (project.def /\ NoneInFlight /\ SomeBatchFailed) =>
     /\ returned = Returned(Defined(CreatedSum(batchState)))
     /\ \E i \in 1..Len(out) : out[i] = ImportReport(Defined(CreatedSum(batchState)))

C3_LookupFailureReportsZero ==
  LookupFailed =>
     /\ Cardinality(LinesAt("error") \cup LinesAt("fail")) = 1
     /\ \A i \in LinesOf("Imported") : out[i].arg = Defined(0)

(***************************************************************************)
(* C4.  While no project has resolved no bulk-create call has been issued; *)
(* in particular none is after a failed lookup, however many issues were   *)
(* fetched.                                                                *)
(***************************************************************************)
C4_NoBulkWithoutProject ==
  ~project.def => (CallsOf("bulk") = {} /\ batches = <<>> /\ stories = <<>>)

C4_Witness == LookupFailed /\ Len(issues.val) > BatchSize

(***************************************************************************)
(* C5.  A configuration that violates a rule ends the process with a       *)
(* non-zero status, and no network call is ever made for it.               *)
(***************************************************************************)
C5_InvalidConfigFailsFast ==
  ViolatedRules(options) # {} =>
     /\ calls = <<>>
     /\ pc \in {"start", "exited"}
     /\ pc = "exited" => exitCode # 0

C5_Witness ==
  pc = "exited" /\ exitCode = ExitFailure /\ ViolatedRules(options) = {"state"}

(***************************************************************************)
(* C6.  Once validateOptions has run, it has logged one usage line for     *)
(* every violated rule, and it has ended the process exactly when a rule   *)
(* is violated.                                                            *)
(***************************************************************************)
C6_OneLinePerViolation ==
  pc # "start" =>
     /\ Cardinality(UsageLines) = Cardinality(ViolatedRules(options))
     /\ \A i, j \in UsageLines : out[i].kind = out[j].kind => i = j
     /\ (pc = "exited") <=> (ViolatedRules(options) # {})
     /\ ViolatedRules(options) = {} => exitCode = 0

C6_Witness == pc = "exited" /\ Cardinality(ViolatedRules(options)) = 5

(***************************************************************************)
(* C7.  When the listing failed, on whatever page, no issue was handed on  *)
(* (`issues` is undefined), nothing was mapped, neither the project lookup *)
(* nor a bulk-create call was made, and the failure was reported once (the *)
(* spinner's failure line, followed by the line of the underlying error).  *)
(***************************************************************************)
C7_FetchFailureIsTerminal ==
  FetchFailed =>
     /\ ~issues.def
     /\ ~project.def /\ stories = <<>> /\ batches = <<>>
     /\ CallsOf("getProject") = {} /\ CallsOf("bulk") = {}
     /\ Cardinality(LinesOf("FetchFailed")) = 1
     /\ Cardinality(LinesOf("FetchError")) = 1
     /\ LinesAt("fail") = LinesOf("FetchFailed")
     /\ LinesAt("error") = LinesOf("FetchError")
     /\ LinesOf("Imported") = {}
     /\ pc = "done" /\ ~returned.done

C7_Witness == FetchFailed /\ pagesReceived = 1 /\ Len(data) = PerPage

(***************************************************************************)
(* C8.  Every batch holds between 1 and 10 records, and the batches one    *)
(* after the other are the mapped records, in their order.                 *)
(***************************************************************************)
C8_BatchingPreservesSequence ==
  /\ \A b \in 1..Len(batches) : Len(batches[b]) >= 1 /\ Len(batches[b]) <= 10
  /\ Flatten(batches) = stories
  /\ project.def => stories = mapStories(project.val.id, issues.val)

C8_Witness ==
  Len(batches) = 3 /\ Len(batches[1]) = 10 /\ Len(batches[2]) = 10 /\ Len(batches[3]) = 5

(***************************************************************************)
(* C9.  Once the issues are mapped there are as many records as the        *)
(* listing returned items that are no pull request, one per such item in   *)
(* the listing's order, and no record of a bulk-create call comes from a   *)
(* pull request.                                                           *)
(***************************************************************************)
NonPullRequestItems == {i \in 1..Len(data) : ~data[i].pull_request}

C9_OneRecordPerIssue ==
  project.def =>
     /\ Len(stories) = Cardinality(NonPullRequestItems)
     /\ \A i \in NonPullRequestItems :
          \E k \in 1..Len(stories) : stories[k].external_id = data[i].html_url
     /\ \A k, m \in 1..Len(stories) :
          stories[k].external_id = stories[m].external_id => k = m
     /\ \A c \in CallsOf("bulk") : \A k \in 1..Len(calls[c].stories) :
          \A i \in 1..Len(data) :
             data[i].html_url = calls[c].stories[k].external_id => ~data[i].pull_request

C9_Witness ==
  /\ project.def
  /\ Len(stories) > BatchSize
  /\ Len(data) > Len(stories)
  /\ data[1].pull_request

(***************************************************************************)
(* C10 as stated.  getStoryType answers bug when a label name contains     *)
(* "bug" in any letter case, else chore when one contains "chore" in any   *)
(* letter case, else feature.                                              *)
(***************************************************************************)
C10_CaseInsensitiveStoryType ==
  storyTypeRes # "none" =>
     storyTypeRes =
       IF \E i \in 1..Len(labelsArg) : OccursIgnoringCase(labelsArg[i].name, <<"b","u","g">>)
       THEN "bug"
       ELSE IF \E i \in 1..Len(labelsArg) :
                 OccursIgnoringCase(labelsArg[i].name, <<"c","h","o","r","e">>)
            THEN "chore"
            ELSE "feature"

(***************************************************************************)
(* C10 amended.  getStoryType answers bug when a label name contains the   *)
(* lower-case letters "bug", else chore when one contains the lower-case   *)
(* letters "chore", else feature (also for no label), whatever the order   *)
(* of the labels: the result depends on the set of the label names only.   *)
(***************************************************************************)
LabelNames(labels) == {labels[i].name : i \in 1..Len(labels)}

C10_CaseSensitiveStoryType ==
  storyTypeRes # "none" =>
     storyTypeRes =
       IF \E n \in LabelNames(labelsArg) : Occurs(n, <<"b","u","g">>) THEN "bug"
       ELSE IF \E n \in LabelNames(labelsArg) : Occurs(n, <<"c","h","o","r","e">>)
            THEN "chore"
            ELSE "feature"

C10_Witness ==
  /\ storyTypeRes = "bug"
  /\ Len(labelsArg) = 3
  /\ labelsArg[1] = LabelChore
  /\ labelsArg[2] = LabelBugCapital
  /\ labelsArg[3] = LabelDebugging

(***************************************************************************)
(* C11.  Once the project has resolved there is exactly one bulk-create    *)
(* call per batch, carrying that batch, in every state of the run: no      *)
(* call is missing or repeated whatever the other batches did, and every   *)
(* record is carried by exactly one call.                                  *)
(***************************************************************************)
CarriedBy(story) ==
  {<<c, k>> \in CallsOf("bulk") \X (1..BatchSize) :
      k <= Len(calls[c].stories) /\ calls[c].stories[k] = story}

C11_OneCallPerBatch ==
  /\ Cardinality(CallsOf("bulk")) = Len(batches)
  /\ \A b \in 1..Len(batches) :
       Cardinality({c \in CallsOf("bulk") : calls[c].stories = batches[b]}) = 1
  /\ \A k \in 1..Len(stories) : Cardinality(CarriedBy(stories[k])) = 1
  /\ \A c \in CallsOf("bulk") : Len(calls[c].stories) <= BatchSize

C11_Witness ==
  /\ Len(batches) = 3
  /\ batchState[1].st = "rejected"
  /\ batchState[2].st = "created"
  /\ batchState[3].st = "transport"

(***************************************************************************)
(* C12.  The running total is at every moment the sum of the counts        *)
(* confirmed to the batches that succeeded so far; when all batches        *)
(* succeeded, in whatever order, the value returned and reported is the    *)
(* sum of the per-batch counts.                                            *)
(***************************************************************************)
C12_NoLostUpdate ==
  /\ issuesImported = CreatedSum(batchState)
  /\ joined = "fulfilled" =>
        /\ AllCreated(batchState)
        /\ returned = Returned(Defined(CreatedSum(batchState)))
        /\ out[Len(out)] = ImportReport(Defined(CreatedSum(batchState)))

C12_Witness ==
  /\ joined = "fulfilled"
  /\ Len(batches) = 3
  /\ batchState[1].added = 9
  /\ batchState[2].added = 10
  /\ batchState[3].added = 5

(***************************************************************************)
(* C13.  importIssuesToClubhouse has returned, or the import report has    *)
(* been written, only when no bulk-create call is still in flight.         *)
(***************************************************************************)
C13_ReportOnlyAfterJoin ==
  (returned.done \/ LinesOf("Imported") # {}) => NoneInFlight

(***************************************************************************)
(* C14.  When the project has resolved, the run has written one            *)
(* batch-failure line for every batch that failed and has not written the  *)
(* project-not-found line.                                                 *)
(***************************************************************************)
FailedBatches == {b \in 1..Len(batchState) : batchState[b].st \in FailureKinds}

C14_ErrorKindsDistinct ==
  project.def =>
     /\ Cardinality(LinesOf("BatchFailed")) = Cardinality(FailedBatches)
     /\ LinesOf("ProjectNotFound") = {}

(***************************************************************************)
(* C15.  The project lookup is called at most once, and every record of    *)
(* every bulk-create call carries the id that this lookup answered.        *)
(***************************************************************************)
C15_SingleResolvedProject ==
  /\ Cardinality(CallsOf("getProject")) <= 1
  /\ \A c \in CallsOf("bulk") :
       /\ project.def
       /\ CallsOf("getProject") # {}
       /\ \A k \in 1..Len(calls[c].stories) :
            calls[c].stories[k].project_id = project.val.id

C15_Witness ==
  /\ project.def
  /\ project.val.id = 2
  /\ Cardinality(CallsOf("bulk")) = 3
  /\ NoneInFlight

(***************************************************************************)
(* C16.  A run with a valid configuration, all of whose network calls are  *)
(* answered, ends normally: githubClubhouseImport returns (no exception    *)
(* leaves it), nothing is left in flight and the exit status is 0,         *)
(* whichever of the fetch, the lookup and the batches failed.              *)
(***************************************************************************)
C16_TerminatesNormally ==
  (pc = "start" /\ ViolatedRules(options) = {})
     ~> (pc = "done" /\ NoneInFlight /\ exitCode = 0)

C16_Witness ==
  /\ pc = "done"
  /\ exitCode = 0
  /\ joined = "rejected"
  /\ NoneInFlight
  /\ Len(batches) = 3
  /\ Cardinality(FailedBatches) = 2

====
